---- MODULE Spec2Model ----
(***************************************************************************)
(* Model of bike_scraper.py: the matcher, the location filter, the two     *)
(* seen-stores (a JSON file for eBay, a line file for Gumtree), the two    *)
(* source pipelines and main.  Text is a sequence of one-character         *)
(* strings, so that lower(), strip(), substring tests, URL normalisation   *)
(* and the line format of the Gumtree store are computed, not assumed.     *)
(***************************************************************************)
EXTENDS Integers, Sequences, FiniteSets, TLC

\* ------------------------------------------------------------------
\* Bounds of the model
\* ------------------------------------------------------------------
\* listings returned by one fetch
MaxBatch == 2
\* executions of the script, one after the other
MaxRuns == 2

\* ------------------------------------------------------------------
\* Text helpers (Python str operations used by the script)
\* ------------------------------------------------------------------
UpperLetters == <<"A","B","C","D","E","F","G","H","I","J","K","L","M",
                  "N","O","P","Q","R","S","T","U","V","W","X","Y","Z">>
LowerLetters == <<"a","b","c","d","e","f","g","h","i","j","k","l","m",
                  "n","o","p","q","r","s","t","u","v","w","x","y","z">>

\* str.lower() on one character
LowerChar(c) ==
    IF \E n \in 1..26 : UpperLetters[n] = c
    THEN LowerLetters[CHOOSE n \in 1..26 : UpperLetters[n] = c]
    ELSE c

\* str.lower()
Lower(s) == [n \in 1..Len(s) |-> LowerChar(s[n])]

\* characters str.strip() removes
IsSpace(c) == c \in {" ", "\n", "\t", "\r"}

\* str.strip(): drop leading and trailing whitespace
Strip(s) ==
    LET keep == {n \in 1..Len(s) : ~IsSpace(s[n])}
    IN  IF keep = {} THEN <<>>
        ELSE LET lo == CHOOSE n \in keep : \A m \in keep : n <= m
                 hi == CHOOSE n \in keep : \A m \in keep : n >= m
             IN  SubSeq(s, lo, hi)

\* sub in s  (Python substring test)
Contains(s, sub) ==
    \E n \in 1..(Len(s) - Len(sub) + 1) : SubSeq(s, n, n + Len(sub) - 1) = sub

\* s.startswith(p)
StartsWith(s, p) == Len(s) >= Len(p) /\ SubSeq(s, 1, Len(p)) = p

\* the set of elements of a sequence
Range(s) == {s[n] : n \in 1..Len(s)}

\* ------------------------------------------------------------------
\* CONFIG
\* ------------------------------------------------------------------
SEARCH_KEYWORDS == << <<"b","i","k","e">> >>
KNOWN_BIKES == << <<"T","r","e","k">>,
                  <<"C","a","r","r","e","r","a">>,
                  <<"S","p","e","c","i","a","l","i","s","e","d">> >>

\* EBAY_RATIO = 0.2 and GUMTREE_RATIO = 0.05 as fractions Num/Den
EBAY_RATIO_NUM == 1
EBAY_RATIO_DEN == 5
GUMTREE_RATIO_NUM == 1
GUMTREE_RATIO_DEN == 20

\* ------------------------------------------------------------------
\* difflib.SequenceMatcher(None, a, b).ratio()
\* ------------------------------------------------------------------
RECURSIVE CommonLen(_, _, _, _, _, _)
\* length of the common run of a from i and b from j, inside [.., ahi] x [.., bhi]
CommonLen(a, b, i, j, ahi, bhi) ==
    IF i > ahi \/ j > bhi \/ a[i] # b[j] THEN 0
    ELSE 1 + CommonLen(a, b, i + 1, j + 1, ahi, bhi)

\* find_longest_match: the longest block, earliest in a, then earliest in b
FindLongestMatch(a, b, alo, ahi, blo, bhi) ==
    LET pairs == (alo..ahi) \X (blo..bhi)
        len(p) == CommonLen(a, b, p[1], p[2], ahi, bhi)
        lens == {len(p) : p \in pairs} \cup {0}
        k == CHOOSE x \in lens : \A y \in lens : x >= y
        best == {p \in pairs : len(p) = k}
        i == CHOOSE x \in {p[1] : p \in best} : \A p \in best : x <= p[1]
        j == CHOOSE y \in {p[2] : p \in {q \in best : q[1] = i}} :
                 \A p \in {q \in best : q[1] = i} : y <= p[2]
    IN  IF k = 0 THEN <<alo, blo, 0>> ELSE <<i, j, k>>

RECURSIVE MatchingSize(_, _, _, _, _, _)
\* sum of the sizes of get_matching_blocks(): the longest block, then
\* recursively the pieces to its left and to its right
MatchingSize(a, b, alo, ahi, blo, bhi) ==
    IF alo > ahi \/ blo > bhi THEN 0
    ELSE LET m == FindLongestMatch(a, b, alo, ahi, blo, bhi)
         IN  IF m[3] = 0 THEN 0
             ELSE m[3]
                  + MatchingSize(a, b, alo, m[1] - 1, blo, m[2] - 1)
                  + MatchingSize(a, b, m[1] + m[3], ahi, m[2] + m[3], bhi)

\* ratio() = 2*M/T (1.0 when T = 0), kept as the pair <<2*M, T>>
Ratio(a, b) ==
    LET T == Len(a) + Len(b)
    IN  IF T = 0 THEN <<1, 1>>
        ELSE <<2 * MatchingSize(a, b, 1, Len(a), 1, Len(b)), T>>

\* a comparison turned round: ratio < num/den
RatioBelow(r, num, den) == r[1] * den < num * r[2]

\* ratio > num/den
RatioExceeds(r, num, den) == r[1] * den > num * r[2]

\* ---------- Shared matching logic -----------
\* an is_match that tries the keywords for every website
is_match_keywords_everywhere(title, website) ==
    LET t == Lower(title)
        NUM == IF website = "ebay" THEN EBAY_RATIO_NUM ELSE GUMTREE_RATIO_NUM
        DEN == IF website = "ebay" THEN EBAY_RATIO_DEN ELSE GUMTREE_RATIO_DEN
    IN  \/ \E n \in 1..Len(KNOWN_BIKES) :
               RatioExceeds(Ratio(t, Lower(KNOWN_BIKES[n])), NUM, DEN)
        \/ \E n \in 1..Len(SEARCH_KEYWORDS) :
               Contains(t, Lower(SEARCH_KEYWORDS[n]))

is_match(title, website) ==
    LET t == Lower(title)
        NUM == IF website = "ebay" THEN EBAY_RATIO_NUM ELSE GUMTREE_RATIO_NUM
        DEN == IF website = "ebay" THEN EBAY_RATIO_DEN ELSE GUMTREE_RATIO_DEN
    IN  \/ \E n \in 1..Len(KNOWN_BIKES) :
               RatioExceeds(Ratio(t, Lower(KNOWN_BIKES[n])), NUM, DEN)
        \/ /\ website = "gumtree"
           /\ \E n \in 1..Len(SEARCH_KEYWORDS) :
                  Contains(t, Lower(SEARCH_KEYWORDS[n]))

\* is_match under another CONFIG: known_bikes for KNOWN_BIKES, and num/den
\* for the RATIO of the website
is_match_config(title, website, known_bikes, num, den) ==
    LET t == Lower(title)
    IN  \/ \E n \in 1..Len(known_bikes) :
               RatioExceeds(Ratio(t, Lower(known_bikes[n])), num, den)
        \/ /\ website = "gumtree"
           /\ \E n \in 1..Len(SEARCH_KEYWORDS) :
                  Contains(t, Lower(SEARCH_KEYWORDS[n]))

EDINBURGH == <<"e","d","i","n","b","u","r","g","h">>

\* an is_nearby that compares the location as it is written
is_nearby_case_sensitive(location, LOCATION_MODE) ==
    IF LOCATION_MODE = "anywhere" THEN TRUE
    ELSE Contains(location, EDINBURGH)

is_nearby(location, LOCATION_MODE) ==
    IF LOCATION_MODE = "anywhere" THEN TRUE
    ELSE Contains(Lower(location), EDINBURGH)

\* ---------- eBay URL normalisation ----------
\* urllib.parse as normalize_ebay_url uses it (links without "[" or "]",
\* which urlsplit checks as IPv6 hosts)
USES_PARAMS ==
    { <<>>,
      <<"f","t","p">>,
      <<"h","d","l">>,
      <<"p","r","o","s","p","e","r","o">>,
      <<"h","t","t","p">>,
      <<"i","m","a","p">>,
      <<"h","t","t","p","s">>,
      <<"s","h","t","t","p">>,
      <<"r","t","s","p">>,
      <<"r","t","s","p","s">>,
      <<"r","t","s","p","u">>,
      <<"s","i","p">>,
      <<"s","i","p","s">>,
      <<"m","m","s">>,
      <<"s","f","t","p">>,
      <<"t","e","l">> }

USES_NETLOC ==
    { <<>>,
      <<"f","t","p">>,
      <<"h","t","t","p">>,
      <<"g","o","p","h","e","r">>,
      <<"n","n","t","p">>,
      <<"t","e","l","n","e","t">>,
      <<"i","m","a","p">>,
      <<"w","a","i","s">>,
      <<"f","i","l","e">>,
      <<"m","m","s">>,
      <<"h","t","t","p","s">>,
      <<"s","h","t","t","p">>,
      <<"s","n","e","w","s">>,
      <<"p","r","o","s","p","e","r","o">>,
      <<"r","t","s","p">>,
      <<"r","t","s","p","s">>,
      <<"r","t","s","p","u">>,
      <<"r","s","y","n","c">>,
      <<"s","v","n">>,
      <<"s","v","n","+","s","s","h">>,
      <<"s","f","t","p">>,
      <<"n","f","s">>,
      <<"g","i","t">>,
      <<"g","i","t","+","s","s","h">>,
      <<"w","s">>,
      <<"w","s","s">> }

Digits == {"0","1","2","3","4","5","6","7","8","9"}
SCHEME_CHARS == Range(LowerLetters) \cup Range(UpperLetters) \cup Digits \cup {"+", "-", "."}

\* s.find(c), counted from 1; 0 when c is not in s
Find(s, c) ==
    LET at == {n \in 1..Len(s) : s[n] = c}
    IN  IF at = {} THEN 0 ELSE CHOOSE n \in at : \A m \in at : n <= m

\* s.rfind(c), counted from 1; 0 when c is not in s
RFind(s, c) ==
    LET at == {n \in 1..Len(s) : s[n] = c}
    IN  IF at = {} THEN 0 ELSE CHOOSE n \in at : \A m \in at : n >= m

\* s.find(c, from), counted from 1; 0 when there is none
FindFrom(s, c, from) ==
    LET at == {n \in from..Len(s) : s[n] = c}
    IN  IF at = {} THEN 0 ELSE CHOOSE n \in at : \A m \in at : n <= m

\* urlsplit's cleaning: leading blanks stripped, then tab, CR and LF removed
UrlClean(url) ==
    LET keep == {n \in 1..Len(url) : ~IsSpace(url[n])}
        lo == IF keep = {} THEN Len(url) + 1
              ELSE CHOOSE n \in keep : \A m \in keep : n <= m
    IN  SelectSeq(SubSeq(url, lo, Len(url)), LAMBDA c : c \notin {"\t", "\r", "\n"})

\* urlsplit, the scheme: <<scheme, rest>>; the text before the first ":" is a
\* scheme when it begins with a letter and is made of scheme characters
SplitScheme(url) ==
    LET i == Find(url, ":")
    IN  IF /\ i > 1
           /\ url[1] \in Range(LowerLetters) \cup Range(UpperLetters)
           /\ \A n \in 1..(i - 1) : url[n] \in SCHEME_CHARS
        THEN <<Lower(SubSeq(url, 1, i - 1)), SubSeq(url, i + 1, Len(url))>>
        ELSE <<<<>>, url>>

\* urlsplit, the netloc: <<netloc, rest>>; after a leading "//" the netloc
\* goes up to the first "/", "?" or "#"
SplitNetloc(url) ==
    LET delims == {n \in 3..Len(url) : url[n] \in {"/", "?", "#"}}
        delim == IF delims = {} THEN Len(url) + 1
                 ELSE CHOOSE n \in delims : \A m \in delims : n <= m
    IN  IF Len(url) >= 2 /\ SubSeq(url, 1, 2) = <<"/", "/">>
        THEN <<SubSeq(url, 3, delim - 1), SubSeq(url, delim, Len(url))>>
        ELSE <<<<>>, url>>

\* url.split(c, 1) when c is in url: <<before, after>>; <<url, "">> otherwise
SplitAt(url, c) ==
    LET h == Find(url, c)
    IN  IF h > 0 THEN <<SubSeq(url, 1, h - 1), SubSeq(url, h + 1, Len(url))>>
        ELSE <<url, <<>>>>

\* urlsplit: scheme, netloc, path, query, fragment
urlsplit(link) ==
    LET a == SplitScheme(UrlClean(link))
        b == SplitNetloc(a[2])
        f == SplitAt(b[2], "#")
        q == SplitAt(f[1], "?")
    IN  [scheme |-> a[1], netloc |-> b[1], path |-> q[1],
         query |-> q[2], fragment |-> f[2]]

\* _splitparams: <<path, params>>, cut at the first ";" of the last segment
splitparams(url) ==
    LET i == IF Find(url, "/") > 0 THEN FindFrom(url, ";", RFind(url, "/"))
             ELSE Find(url, ";")
    IN  IF i = 0 THEN <<url, <<>>>>
        ELSE <<SubSeq(url, 1, i - 1), SubSeq(url, i + 1, Len(url))>>

\* urlparse: urlsplit, then the params of a scheme that has them
WithParams(s) ==
    LET p == IF s.scheme \in USES_PARAMS /\ Find(s.path, ";") > 0
             THEN splitparams(s.path) ELSE <<s.path, <<>>>>
    IN  [scheme |-> s.scheme, netloc |-> s.netloc, path |-> p[1], params |-> p[2],
         query |-> s.query, fragment |-> s.fragment]

urlparse(link) == WithParams(urlsplit(link))

\* urlunsplit: the "//" and netloc put before the path
WithNetloc(scheme, netloc, url) ==
    IF \/ netloc # <<>>
       \/ /\ scheme # <<>>
          /\ scheme \in USES_NETLOC
          /\ ~(Len(url) >= 2 /\ SubSeq(url, 1, 2) = <<"/", "/">>)
    THEN <<"/", "/">> \o netloc
         \o (IF url # <<>> /\ url[1] # "/" THEN <<"/">> ELSE <<>>) \o url
    ELSE url

\* a part put behind the url with its delimiter, when it is not empty
WithPart(url, delimiter, part) ==
    IF part # <<>> THEN url \o <<delimiter>> \o part ELSE url

\* urlunparse / urlunsplit
urlunparse(c) ==
    WithPart(
        WithPart(
            (IF c.scheme # <<>> THEN c.scheme \o <<":">> ELSE <<>>)
                \o WithNetloc(c.scheme, c.netloc, WithPart(c.path, ";", c.params)),
            "?", c.query),
        "#", c.fragment)

\* urlunparse(urlparse(link)._replace(query="", fragment=""))
normalize_ebay_url(link) ==
    urlunparse([urlparse(link) EXCEPT !.query = <<>>, !.fragment = <<>>])


\* ------------------------------------------------------------------
\* Seen-stores
\* ------------------------------------------------------------------
\* all the orders in which list(seen) can enumerate a set
SeqsOf(S) == {s \in [1..Cardinality(S) -> S] : Range(s) = S}

\* SEEN_EBAY: absent, a JSON list of strings, or text that is not JSON
NoEbayFile == [st |-> "absent", items |-> <<>>]
CorruptEbayFile == [st |-> "corrupt", items |-> <<>>]

\* a load_ebay_seen that opens the file without the os.path.exists test
load_ebay_seen_without_exists(file) ==
    IF file.st = "json" THEN [ok |-> TRUE, val |-> Range(file.items)]
    ELSE [ok |-> FALSE, val |-> {}]

\* load_ebay_seen: the set of the list json.load returns; json.load raises
\* on text that is not JSON
load_ebay_seen(file) ==
    IF file.st = "absent" THEN [ok |-> TRUE, val |-> {}]
    ELSE IF file.st = "json" THEN [ok |-> TRUE, val |-> Range(file.items)]
    ELSE [ok |-> FALSE, val |-> {}]

\* save_ebay_seen: the file contents json.dump(list(seen)) can leave
save_ebay_seen(seen) == {[st |-> "json", items |-> s] : s \in SeqsOf(seen)}

\* SEEN_GUMTREE: absent, or a text
NoGumtreeFile == [exists |-> FALSE, text |-> <<>>]

RECURSIVE Lines(_)
\* iteration over a text file: the lines, each with its newline
Lines(text) ==
    IF text = <<>> THEN {}
    ELSE LET nl == {n \in 1..Len(text) : text[n] = "\n"}
         IN  IF nl = {} THEN {text}
             ELSE LET k == CHOOSE n \in nl : \A m \in nl : n <= m
                  IN  {SubSeq(text, 1, k)} \cup Lines(SubSeq(text, k + 1, Len(text)))

load_gumtree_seen(file) ==
    IF file.exists THEN {Strip(line) : line \in Lines(file.text)} ELSE {}

\* a mark_gumtree_seen that opens the file with "w"
mark_gumtree_seen_overwrite(file, url) ==
    [exists |-> TRUE, text |-> url \o <<"\n">>]

\* with open(SEEN_GUMTREE, "a"): write(url + "\n")
mark_gumtree_seen(file, url) ==
    [exists |-> TRUE, text |-> file.text \o url \o <<"\n">>]

\* a clear_cache that forgets the Gumtree file
clear_cache_ebay_only(efile, gfile) == <<NoEbayFile, gfile>>

\* a clear_cache that forgets the eBay file
clear_cache_gumtree_only(efile, gfile) == <<efile, NoGumtreeFile>>

\* clear_cache: unlink both files; <<eBay file, Gumtree file>> afterwards
clear_cache(efile, gfile) == <<NoEbayFile, NoGumtreeFile>>

\* ------------------------------------------------------------------
\* Listings the fetches can return
\* ------------------------------------------------------------------
\* select_one found no tag / the <a> tag has no href attribute
None == <<"<None>">>
NoHref == <<"<NoHref>">>

TitleTrek == <<"N","e","w"," ","L","i","s","t","i","n","g","T","r","e","k">>
TitleBob == <<"b","o","b">>
LocEdinburgh == <<"E","d","i","n","b","u","r","g","h">>
LocLondon == <<"L","o","n","d","o","n">>
UNKNOWN == <<"U","n","k","n","o","w","n">>

\* .s-item elements: the text of the link, title and location tags
EbayItems ==
    { [link_tag |-> <<"u">>,         title_tag |-> TitleTrek, loc_tag |-> LocEdinburgh],
      [link_tag |-> <<"u","?","q">>, title_tag |-> TitleTrek, loc_tag |-> None],
      [link_tag |-> <<"v">>,         title_tag |-> TitleBob,  loc_tag |-> LocLondon],
      [link_tag |-> None,            title_tag |-> TitleTrek, loc_tag |-> LocEdinburgh],
      [link_tag |-> NoHref,          title_tag |-> TitleTrek, loc_tag |-> LocEdinburgh],
      [link_tag |-> <<"v">>,         title_tag |-> None,      loc_tag |-> LocEdinburgh] }

BatchesOf(S) == UNION {[1..n -> S] : n \in 0..MaxBatch}

GUMTREE_BASE == <<"h","t","t","p","s",":","/","/","w","w","w",".",
                  "g","u","m","t","r","e","e",".","c","o","m">>
P_PREFIX == <<"/","p","/">>

\* <a href=...> tags of the Gumtree page: href, aria-label ("" if none), text
GumtreeAnchors ==
    { [href |-> <<"/","p","/","a">>,     aria |-> <<"T","r","e","k">>, text |-> <<>>],
      [href |-> <<"/","p","/","b">>,     aria |-> TitleBob, text |-> <<>>],
      [href |-> <<"/","p","/","a"," ">>, aria |-> <<>>, text |-> <<" ","T","r","e","k">>],
      [href |-> <<"/","x">>,             aria |-> <<"T","r","e","k">>, text |-> <<>>],
      [href |-> <<"/","p","/","c">>,     aria |-> <<" ">>, text |-> <<>>] }

RECURSIVE parse_gumtree(_)
parse_gumtree(items) ==
    IF items = <<>> THEN <<>>
    ELSE LET item == Head(items)
             href == item.href
             aria == Strip(item.aria)
             title == IF aria = <<>> THEN Strip(item.text) ELSE aria
             rest == parse_gumtree(Tail(items))
         IN  IF href = <<>> \/ ~StartsWith(href, P_PREFIX) THEN rest
             ELSE IF title # <<>> /\ Contains(href, P_PREFIX)
                  THEN <<[title |-> title, link |-> GUMTREE_BASE \o href]>> \o rest
                  ELSE rest


\* ------------------------------------------------------------------
\* State
\* ------------------------------------------------------------------
VARIABLES
    pc,               \* where the current execution of the script is
    runs,             \* executions started so far
    cfg,              \* CONFIG of the current execution
    err,              \* the exception that ended the execution, or "none"
    ebayFile,         \* SEEN_EBAY on disk
    gumtreeFile,      \* SEEN_GUMTREE on disk
    results,          \* local of the running process_* call
    seen,             \* local of the running process_* call
    new_seen,         \* local of process_ebay
    idx,              \* position of the for loop, from 1
    ebay_matches,     \* module-level list
    gumtree_matches,  \* module-level list
    printed,          \* what main has printed
    cleared,          \* history: what clear_cache removed in this execution
    last,             \* history: per source, the listings of its last completed call
    repeat,           \* history: the running call repeats the listings of last
    call              \* a single call of one function: its arguments and its result

vars == <<pc, runs, cfg, err, ebayFile, gumtreeFile, results, seen, new_seen,
          idx, ebay_matches, gumtree_matches, printed, cleared, last, repeat, call>>

\* what the executions of the script leave alone: the history variables of
\* the repeated-call specification, and the single function call
hist == <<last, repeat, call>>

\* no function is called on its own
NoCall == [fn |-> "none", text |-> <<>>, website |-> "none", mode |-> "none",
           known |-> 0, num |-> 0, den |-> 1, done |-> FALSE, ret |-> <<>>]

\* marks "no completed call on the present store"
NoBatch == [has |-> FALSE, listings |-> <<>>]
NoLast == [ebay |-> NoBatch, gumtree |-> NoBatch]

Configs == [clear : BOOLEAN, ebay : BOOLEAN, gumtree : BOOLEAN,
            mode : {"edinburgh", "anywhere"}]

NoConfig == [clear |-> FALSE, ebay |-> FALSE, gumtree |-> FALSE, mode |-> "edinburgh"]

NotCleared == [done |-> FALSE, ebay |-> {}, gumtree |-> {}]

\* the set a load of the eBay store would give, {} when it cannot be loaded
EbayStored == load_ebay_seen(ebayFile).val
GumtreeStored == load_gumtree_seen(gumtreeFile)

\* Before the first execution: no Gumtree file; no eBay file, or one whose
\* text is not JSON (open(..., "w") truncates before json.dump writes).
Init ==
    /\ pc = "idle"
    /\ runs = 0
    /\ cfg = NoConfig
    /\ err = "none"
    /\ ebayFile \in {NoEbayFile, CorruptEbayFile}
    /\ gumtreeFile = NoGumtreeFile
    /\ results = <<>>
    /\ seen = {}
    /\ new_seen = {}
    /\ idx = 0
    /\ ebay_matches = <<>>
    /\ gumtree_matches = <<>>
    /\ printed = <<>>
    /\ cleared = NotCleared
    /\ last = NoLast
    /\ repeat = FALSE
    /\ call = NoCall

\* the locals of a process_* call that has returned or was abandoned
NoLocals ==
    /\ results' = <<>>
    /\ seen' = {}
    /\ new_seen' = {}
    /\ idx' = 0

\* an exception leaves the running call and main: nothing catches it
Raise(name) ==
    /\ pc' = "raised"
    /\ err' = name
    /\ NoLocals

\* ------------------------------------------------------------------
\* One execution of the script
\* ------------------------------------------------------------------
\* python bike_scraper.py: the module is loaded with its CONFIG, the match
\* lists are empty, main() begins
StartRun ==
    /\ pc = "idle"
    /\ runs < MaxRuns
    /\ runs' = runs + 1
    /\ cfg' \in Configs
    /\ pc' = "main"
    /\ UNCHANGED <<err, ebayFile, gumtreeFile, results, seen, new_seen, idx,
                   ebay_matches, gumtree_matches, printed, cleared, hist>>

\* main: if CLEAR_CACHE_ON_START: clear_cache()
MainClearCore ==
    /\ pc = "main"
    /\ pc' = "ebay"
    /\ IF cfg.clear
       THEN /\ ebayFile' = clear_cache(ebayFile, gumtreeFile)[1]
            /\ gumtreeFile' = clear_cache(ebayFile, gumtreeFile)[2]
            /\ cleared' = [done |-> TRUE, ebay |-> EbayStored, gumtree |-> GumtreeStored]
       ELSE UNCHANGED <<ebayFile, gumtreeFile, cleared>>
    /\ UNCHANGED <<runs, cfg, err, results, seen, new_seen, idx, ebay_matches,
                   gumtree_matches, printed>>

MainClear == MainClearCore /\ UNCHANGED hist

\* main: ENABLE_EBAY is False
MainSkipEbay ==
    /\ pc = "ebay"
    /\ ~cfg.ebay
    /\ pc' = "gumtree"
    /\ UNCHANGED <<runs, cfg, err, ebayFile, gumtreeFile, results, seen, new_seen,
                   idx, ebay_matches, gumtree_matches, printed, cleared, hist>>

\* process_ebay: fetch_ebay_results raises (requests.get, raise_for_status)
EbayFetchFails ==
    /\ pc = "ebay"
    /\ cfg.ebay
    /\ Raise("HTTPError")
    /\ UNCHANGED <<runs, cfg, ebayFile, gumtreeFile, ebay_matches, gumtree_matches,
                   printed, cleared, hist>>

\* process_ebay up to the loop: fetch, select the items, load_ebay_seen
EbayBeginFrom(batches) ==
    /\ pc = "ebay"
    /\ cfg.ebay
    /\ \E batch \in batches :
          LET loaded == load_ebay_seen(ebayFile)
          IN  IF loaded.ok
              THEN /\ results' = batch
                   /\ seen' = loaded.val
                   /\ new_seen' = loaded.val
                   /\ idx' = 1
                   /\ pc' = "ebay_loop"
                   /\ err' = err
              ELSE Raise("JSONDecodeError")
    /\ UNCHANGED <<runs, cfg, ebayFile, gumtreeFile, ebay_matches, gumtree_matches,
                   printed, cleared>>

EbayBegin == EbayBeginFrom(BatchesOf(EbayItems)) /\ UNCHANGED hist

\* the (title, link) the eBay loop appends: the title loses its first 11 characters
EbayMatch(title, link) == <<SubSeq(title, 12, Len(title)), link>>

\* an emission test that forgets the location
Emit_matched_only(matched, located) == matched

\* if matched and located: is the listing appended to the match list
Emit(matched, located) == matched /\ located

\* one iteration of the loop of process_ebay
EbayItem ==
    /\ pc = "ebay_loop"
    /\ idx <= Len(results)
    /\ LET item == results[idx]
           link == normalize_ebay_url(item.link_tag)
           title == Strip(item.title_tag)
           location == IF item.loc_tag # None THEN Strip(item.loc_tag) ELSE UNKNOWN
       IN  IF item.link_tag = None \/ item.title_tag = None
           THEN \* Missing link or title: skipping
                /\ idx' = idx + 1
                /\ UNCHANGED <<pc, err, results, seen, new_seen, ebay_matches>>
           ELSE IF item.link_tag = NoHref
           THEN \* link_tag["href"] on a tag without href
                /\ Raise("KeyError")
                /\ UNCHANGED ebay_matches
           ELSE IF link \in seen
           THEN \* Already seen: skipping
                /\ idx' = idx + 1
                /\ UNCHANGED <<pc, err, results, seen, new_seen, ebay_matches>>
           ELSE /\ ebay_matches' =
                      IF Emit(is_match(title, "ebay"), is_nearby(location, cfg.mode))
                      THEN Append(ebay_matches, EbayMatch(title, link))
                      ELSE ebay_matches
                /\ new_seen' = new_seen \cup {link}
                /\ idx' = idx + 1
                /\ UNCHANGED <<pc, err, results, seen>>
    /\ UNCHANGED <<runs, cfg, ebayFile, gumtreeFile, gumtree_matches, printed,
                   cleared, hist>>

\* process_ebay after the loop: save_ebay_seen(new_seen), return
EbaySaveCore ==
    /\ pc = "ebay_loop"
    /\ idx > Len(results)
    /\ ebayFile' \in save_ebay_seen(new_seen)
    /\ pc' = "gumtree"
    /\ NoLocals
    /\ UNCHANGED <<runs, cfg, err, gumtreeFile, ebay_matches, gumtree_matches,
                   printed, cleared>>

EbaySave == EbaySaveCore /\ UNCHANGED hist

\* main: ENABLE_GUMTREE is False
MainSkipGumtree ==
    /\ pc = "gumtree"
    /\ ~cfg.gumtree
    /\ pc' = "print"
    /\ UNCHANGED <<runs, cfg, err, ebayFile, gumtreeFile, results, seen, new_seen,
                   idx, ebay_matches, gumtree_matches, printed, cleared, hist>>

\* process_gumtree: fetch_gumtree_results raises
GumtreeFetchFails ==
    /\ pc = "gumtree"
    /\ cfg.gumtree
    /\ Raise("HTTPError")
    /\ UNCHANGED <<runs, cfg, ebayFile, gumtreeFile, ebay_matches, gumtree_matches,
                   printed, cleared, hist>>

\* process_gumtree up to the loop: fetch, parse_gumtree, load_gumtree_seen
GumtreeBeginFrom(listings) ==
    /\ pc = "gumtree"
    /\ cfg.gumtree
    /\ results' \in listings
    /\ seen' = load_gumtree_seen(gumtreeFile)
    /\ idx' = 1
    /\ pc' = "gumtree_loop"
    /\ UNCHANGED <<runs, cfg, err, ebayFile, gumtreeFile, new_seen, ebay_matches,
                   gumtree_matches, printed, cleared>>

\* the listings parse_gumtree can return
GumtreeListings == {parse_gumtree(anchors) : anchors \in BatchesOf(GumtreeAnchors)}

GumtreeBegin == GumtreeBeginFrom(GumtreeListings) /\ UNCHANGED hist

\* one iteration of the loop of process_gumtree
GumtreeItem ==
    /\ pc = "gumtree_loop"
    /\ idx <= Len(results)
    /\ LET item == results[idx]
       IN  IF item.link \in seen
           THEN \* Already seen: skipping
                UNCHANGED <<gumtree_matches, gumtreeFile>>
           ELSE /\ gumtree_matches' =
                      IF is_match(item.title, "gumtree")
                      THEN Append(gumtree_matches, <<item.title, item.link>>)
                      ELSE gumtree_matches
                /\ gumtreeFile' = mark_gumtree_seen(gumtreeFile, item.link)
    /\ idx' = idx + 1
    /\ UNCHANGED <<pc, runs, cfg, err, ebayFile, results, seen, new_seen,
                   ebay_matches, printed, cleared, hist>>

\* process_gumtree returns when the loop is over
GumtreeReturnCore ==
    /\ pc = "gumtree_loop"
    /\ idx > Len(results)
    /\ pc' = "print"
    /\ NoLocals
    /\ UNCHANGED <<runs, cfg, err, ebayFile, gumtreeFile, ebay_matches,
                   gumtree_matches, printed, cleared>>

GumtreeReturn == GumtreeReturnCore /\ UNCHANGED hist

\* a printing loop that goes through the matches from the last to the first
PrintMatches_reversed(source, matches) ==
    [n \in 1..(2 * Len(matches)) |->
        LET m == matches[Len(matches) + 1 - ((n + 1) \div 2)]
        IN  IF n % 2 = 1 THEN [source |-> source, line |-> m[1]]
            ELSE [source |-> source, line |-> m[2] \o <<"\n">>]]

RECURSIVE PrintMatches(_, _)
\* for title, link in matches: print(title); print(link + "\n")
PrintMatches(source, matches) ==
    IF matches = <<>> THEN <<>>
    ELSE <<[source |-> source, line |-> Head(matches)[1]],
           [source |-> source, line |-> Head(matches)[2] \o <<"\n">>]>>
         \o PrintMatches(source, Tail(matches))

\* a header when the list is not empty, then the matches
PrintSource(source, matches) ==
    (IF matches # <<>> THEN <<[source |-> source, line |-> <<"All matches!">>]>>
     ELSE <<>>) \o PrintMatches(source, matches)

\* main: print the eBay matches, then the Gumtree matches
MainPrint ==
    /\ pc = "print"
    /\ printed' = PrintSource("ebay", ebay_matches)
                  \o PrintSource("gumtree", gumtree_matches)
    /\ pc' = "done"
    /\ UNCHANGED <<runs, cfg, err, ebayFile, gumtreeFile, results, seen, new_seen,
                   idx, ebay_matches, gumtree_matches, cleared, hist>>

\* the process is stopped between two steps (killed, power loss)
Stop ==
    /\ pc \in {"main", "ebay", "ebay_loop", "gumtree", "gumtree_loop", "print"}
    /\ pc' = "stopped"
    /\ NoLocals
    /\ UNCHANGED <<runs, cfg, err, ebayFile, gumtreeFile, ebay_matches,
                   gumtree_matches, printed, cleared, hist>>

\* the process is gone: its memory (CONFIG, match lists) with it; the files stay
Exit ==
    /\ pc \in {"done", "raised", "stopped"}
    /\ pc' = "idle"
    /\ cfg' = NoConfig
    /\ err' = "none"
    /\ ebay_matches' = <<>>
    /\ gumtree_matches' = <<>>
    /\ printed' = <<>>
    /\ cleared' = NotCleared
    /\ UNCHANGED <<runs, ebayFile, gumtreeFile, results, seen, new_seen, idx, hist>>

Next ==
    \/ StartRun
    \/ MainClear
    \/ MainSkipEbay
    \/ EbayFetchFails
    \/ EbayBegin
    \/ EbayItem
    \/ EbaySave
    \/ MainSkipGumtree
    \/ GumtreeFetchFails
    \/ GumtreeBegin
    \/ GumtreeItem
    \/ GumtreeReturn
    \/ MainPrint
    \/ Stop
    \/ Exit

Spec == Init /\ [][Next]_vars

\* ------------------------------------------------------------------
\* The same executions, where a call of a pipeline that follows a completed
\* call of it (with no clear in between) is given the same listings again
\* ------------------------------------------------------------------
RepeatMainClear ==
    /\ MainClearCore
    /\ last' = IF cfg.clear THEN NoLast ELSE last
    /\ UNCHANGED <<repeat, call>>

RepeatEbayBegin ==
    /\ EbayBeginFrom(IF last.ebay.has THEN {last.ebay.listings} ELSE BatchesOf(EbayItems))
    /\ repeat' = last.ebay.has
    /\ last' = [last EXCEPT !.ebay = NoBatch]
    /\ UNCHANGED call

RepeatEbaySave ==
    /\ EbaySaveCore
    /\ last' = [last EXCEPT !.ebay = [has |-> TRUE, listings |-> results]]
    /\ repeat' = FALSE
    /\ UNCHANGED call

RepeatGumtreeBegin ==
    /\ GumtreeBeginFrom(IF last.gumtree.has THEN {last.gumtree.listings} ELSE GumtreeListings)
    /\ repeat' = last.gumtree.has
    /\ last' = [last EXCEPT !.gumtree = NoBatch]
    /\ UNCHANGED call

RepeatGumtreeReturn ==
    /\ GumtreeReturnCore
    /\ last' = [last EXCEPT !.gumtree = [has |-> TRUE, listings |-> results]]
    /\ repeat' = FALSE
    /\ UNCHANGED call

NextRepeat ==
    \/ StartRun
    \/ RepeatMainClear
    \/ MainSkipEbay
    \/ EbayFetchFails
    \/ RepeatEbayBegin
    \/ EbayItem
    \/ RepeatEbaySave
    \/ MainSkipGumtree
    \/ GumtreeFetchFails
    \/ RepeatGumtreeBegin
    \/ GumtreeItem
    \/ RepeatGumtreeReturn
    \/ MainPrint
    \/ Stop
    \/ Exit

SpecRepeat == Init /\ [][NextRepeat]_vars

\* ------------------------------------------------------------------
\* Single calls of the functions of the script, each on arguments drawn
\* from a bounded set
\* ------------------------------------------------------------------
\* length of the links given to normalize_ebay_url
MaxLink == 4

LinkChars == {"u", "/", "?", "#"}
Links == UNION {[1..n -> LinkChars] : n \in 0..MaxLink}

NormalizeCalls == {[NoCall EXCEPT !.fn = "normalize_ebay_url", !.text = l] : l \in Links}

\* titles given to is_match: with a known bike, without anything, the bare
\* keyword, the keyword in a short and in a long title of other letters
\* (lower and upper case), a long title without the keyword
Padding(n) == [k \in 1..n |-> "z"]
TitleBike == <<"b","i","k","e">>
TitleShortBike == Padding(8) \o <<" ","B","I","K","E"," ">> \o Padding(4)
TitleLongBike == <<"b","i","k","e"," ">> \o Padding(70)
TitleLongBIKE == Padding(35) \o <<" ","B","i","k","E"," ">> \o Padding(35)
TitleLongNothing == Padding(70)
TitleDyson == <<"D","y","s","o","n"," ","v","a","c","u","u","m"," ",
                "c","l","e","a","n","e","r">>
MatchTitles == {TitleTrek, TitleBob, TitleBike, TitleShortBike, TitleLongBike,
                TitleLongBIKE, TitleLongNothing, TitleDyson}

\* the website argument of is_match; "none" is the default None
Websites == {"ebay", "gumtree", "none"}

IsMatchCalls ==
    {[NoCall EXCEPT !.fn = "is_match", !.text = t, !.website = w] :
        t \in MatchTitles, w \in Websites}

\* locations given to is_nearby: the city alone, inside a longer text, in
\* capitals, cut short, another city, the "Unknown" of a listing without a
\* location, the empty text
LocLeith == <<"L","e","i","t","h",","," ","E","D","I","N","B","U","R","G","H"," ","E","H","6">>
LocEdinburg == <<"E","d","i","n","b","u","r","g">>
NearbyLocations == {LocEdinburgh, EDINBURGH, LocLeith, LocEdinburg, LocLondon, UNKNOWN, <<>>}

\* LOCATION_MODE
LocationModes == {"edinburgh", "anywhere"}

IsNearbyCalls ==
    {[NoCall EXCEPT !.fn = "is_nearby", !.text = l, !.mode = m] :
        l \in NearbyLocations, m \in LocationModes}

\* the thresholds given to is_match_config are 0/ThresholdSteps .. 1
ThresholdSteps == 20

\* titles for the calls with a threshold
ThresholdTitles == {TitleTrek, TitleBob, TitleBike, TitleDyson}

\* calls of is_match with one known bike (the known-th) and a threshold
IsMatchConfigCalls ==
    {[NoCall EXCEPT !.fn = "is_match_config", !.text = t, !.website = w, !.known = k,
                    !.num = n, !.den = ThresholdSteps] :
        t \in ThresholdTitles, w \in {"ebay", "gumtree"},
        k \in 1..Len(KNOWN_BIKES), n \in 0..ThresholdSteps}

Calls == NormalizeCalls \cup IsMatchCalls \cup IsNearbyCalls \cup IsMatchConfigCalls

\* no execution of the script is under way; the arguments of the call are drawn
InitCalls ==
    /\ call \in Calls
    /\ pc = "idle"
    /\ runs = 0
    /\ cfg = NoConfig
    /\ err = "none"
    /\ ebayFile = NoEbayFile
    /\ gumtreeFile = NoGumtreeFile
    /\ results = <<>>
    /\ seen = {}
    /\ new_seen = {}
    /\ idx = 0
    /\ ebay_matches = <<>>
    /\ gumtree_matches = <<>>
    /\ printed = <<>>
    /\ cleared = NotCleared
    /\ last = NoLast
    /\ repeat = FALSE

\* what a single call leaves alone
script == <<pc, runs, cfg, err, ebayFile, gumtreeFile, results, seen, new_seen,
            idx, ebay_matches, gumtree_matches, printed, cleared, last, repeat>>

CallNormalize ==
    /\ call.fn = "normalize_ebay_url"
    /\ ~call.done
    /\ call' = [call EXCEPT !.done = TRUE, !.ret = normalize_ebay_url(call.text)]
    /\ UNCHANGED script

CallIsMatch ==
    /\ call.fn = "is_match"
    /\ ~call.done
    /\ call' = [call EXCEPT !.done = TRUE, !.ret = is_match(call.text, call.website)]
    /\ UNCHANGED script

CallIsNearby ==
    /\ call.fn = "is_nearby"
    /\ ~call.done
    /\ call' = [call EXCEPT !.done = TRUE, !.ret = is_nearby(call.text, call.mode)]
    /\ UNCHANGED script

CallIsMatchConfig ==
    /\ call.fn = "is_match_config"
    /\ ~call.done
    /\ call' = [call EXCEPT !.done = TRUE,
                            !.ret = is_match_config(call.text, call.website,
                                        <<KNOWN_BIKES[call.known]>>, call.num, call.den)]
    /\ UNCHANGED script

NextCalls ==
    \/ CallNormalize
    \/ CallIsMatch
    \/ CallIsNearby
    \/ CallIsMatchConfig

SpecCalls == InitCalls /\ [][NextCalls]_vars

TypeOK ==
    /\ pc \in {"idle", "main", "ebay", "ebay_loop", "gumtree", "gumtree_loop",
               "print", "done", "raised", "stopped"}
    /\ runs \in 0..MaxRuns
    /\ cfg \in Configs
    /\ err \in {"none", "HTTPError", "JSONDecodeError", "KeyError"}
    /\ idx \in 0..(MaxBatch + 1)


\* ------------------------------------------------------------------
\* Properties
\* ------------------------------------------------------------------
\* the listing of the eBay loop has a link tag with an href, and a title tag
EbayComplete(item) == item.link_tag \notin {None, NoHref} /\ item.title_tag # None

EbayLink(item) == normalize_ebay_url(item.link_tag)
EbayTitle(item) == Strip(item.title_tag)
EbayLocation(item) == IF item.loc_tag # None THEN Strip(item.loc_tag) ELSE UNKNOWN

\* the steps of the two loops
InEbayLoop == pc = "ebay_loop" /\ idx <= Len(results)
InGumtreeLoop == pc = "gumtree_loop" /\ idx <= Len(results)

\* mark_gumtree_seen has written the identity into the Gumtree file
WrittenGumtree(id) == gumtreeFile.exists /\ (id \o <<"\n">>) \in Lines(gumtreeFile.text)

\* C1: once an identity has been added to a source's seen-set (eBay: it is in
\* new_seen or in the saved file; Gumtree: it was written to the file or a
\* load returns it), no later step of that source's loop emits it as a match.
C1_NeverReEmitted ==
    [][ /\ (InEbayLoop /\ ebay_matches' # ebay_matches)
            => EbayLink(results[idx]) \notin (new_seen \cup EbayStored)
        /\ (InGumtreeLoop /\ gumtree_matches' # gumtree_matches)
            => /\ ~WrittenGumtree(results[idx].link)
               /\ results[idx].link \notin GumtreeStored ]_vars

\* C2: a call of a pipeline that is given the listings of the previous
\* completed call of that pipeline, with no clear in between, ends with no match.
C2_SecondCallEmitsNothing ==
    /\ (repeat /\ pc = "ebay_loop" /\ idx > Len(results)) => ebay_matches = <<>>
    /\ (repeat /\ pc = "gumtree_loop" /\ idx > Len(results)) => gumtree_matches = <<>>

\* C3: a failed fetch of one source does not end the execution with an error.
C3_FetchFailureIsolated == ~(pc = "raised" /\ err = "HTTPError")

\* C4: when process_ebay gets its listings and the stored content is not
\* parseable, the load gives the empty set and the call goes on into its loop.
C4_MalformedIsEmpty ==
    [][ (pc = "ebay" /\ cfg.ebay /\ ebayFile.st = "corrupt"
            /\ pc' # "stopped" /\ err' # "HTTPError")
        => (pc' = "ebay_loop" /\ seen' = {} /\ err' = "none") ]_vars

\* C5: in an execution with CLEAR_CACHE_ON_START, clear_cache has run before
\* either pipeline begins; both loads are then empty, and every listing the
\* loops have gone through (also one that was in a store before the clear)
\* has been evaluated: recorded, and emitted if it matches (and is nearby).
C5_ClearResetsNovelty ==
    /\ (cfg.clear /\ pc \in {"ebay", "ebay_loop", "gumtree", "gumtree_loop", "print", "done"})
         => cleared.done
    /\ (cfg.clear /\ pc = "ebay") => (EbayStored = {} /\ GumtreeStored = {})
    /\ (cfg.clear /\ pc = "ebay_loop") =>
         \A k \in 1..(idx - 1) :
            EbayComplete(results[k]) =>
               /\ EbayLink(results[k]) \in new_seen
               /\ (is_match(EbayTitle(results[k]), "ebay")
                     /\ is_nearby(EbayLocation(results[k]), cfg.mode))
                  => EbayMatch(EbayTitle(results[k]), EbayLink(results[k]))
                        \in Range(ebay_matches)
    /\ (cfg.clear /\ pc = "gumtree_loop") =>
         \A k \in 1..(idx - 1) :
            /\ WrittenGumtree(results[k].link)
            /\ is_match(results[k].title, "gumtree")
                  => <<results[k].title, results[k].link>> \in Range(gumtree_matches)

\* C5 witness: after a clear, an identity the clear removed has been emitted
C5_Witness ==
    /\ cfg.clear
    /\ cleared.done
    /\ \/ /\ pc = "ebay_loop"
          /\ \E n \in 1..Len(ebay_matches) : ebay_matches[n][2] \in cleared.ebay
       \/ /\ pc = "gumtree_loop"
          /\ \E n \in 1..Len(gumtree_matches) : gumtree_matches[n][2] \in cleared.gumtree

\* C6: when a pipeline call returns, every listing of it that had a link and
\* a title and was not in the loaded seen-set is in what a load of the
\* source's store returns.
C6_SeenRegardless ==
    [][ /\ (pc = "ebay_loop" /\ pc' = "gumtree") =>
              \A k \in 1..Len(results) :
                 EbayComplete(results[k]) => EbayLink(results[k]) \in load_ebay_seen(ebayFile').val
        /\ (pc = "gumtree_loop" /\ pc' = "print") =>
              \A k \in 1..Len(results) : results[k].link \in load_gumtree_seen(gumtreeFile') ]_vars

\* C7: in a loop step on a complete listing: if its identity is in the loaded
\* seen-set, nothing is emitted and nothing is recorded; otherwise it is
\* emitted iff the matcher accepts the title and (eBay only) the location
\* filter accepts the location; for Gumtree the matcher alone decides.
C7_EmissionCondition ==
    [][ /\ (InEbayLoop /\ idx' = idx + 1 /\ EbayComplete(results[idx])) =>
              LET item == results[idx]
                  link == EbayLink(item)
                  title == EbayTitle(item)
              IN  IF link \in seen
                  THEN ebay_matches' = ebay_matches /\ new_seen' = new_seen
                       /\ ebayFile' = ebayFile
                  ELSE IF is_match(title, "ebay") /\ is_nearby(EbayLocation(item), cfg.mode)
                  THEN ebay_matches' = Append(ebay_matches, <<SubSeq(title, 12, Len(title)), link>>)
                  ELSE ebay_matches' = ebay_matches
        /\ (InGumtreeLoop /\ idx' = idx + 1) =>
              LET item == results[idx]
              IN  IF item.link \in seen
                  THEN gumtree_matches' = gumtree_matches /\ gumtreeFile' = gumtreeFile
                  ELSE IF is_match(item.title, "gumtree")
                  THEN gumtree_matches' = Append(gumtree_matches, <<item.title, item.link>>)
                  ELSE gumtree_matches' = gumtree_matches ]_vars

\* C7 witness: under mode "edinburgh" the eBay loop has gone through a new
\* listing that the matcher accepts and the location filter rejects, and has
\* emitted nothing
C7_Witness ==
    /\ pc = "ebay_loop"
    /\ idx = 2
    /\ cfg.mode = "edinburgh"
    /\ EbayComplete(results[1])
    /\ EbayLink(results[1]) \notin seen
    /\ is_match(EbayTitle(results[1]), "ebay")
    /\ ~is_nearby(EbayLocation(results[1]), cfg.mode)
    /\ ebay_matches = <<>>
    /\ EbayLink(results[1]) \in new_seen

\* C8: a loop step on a listing without a link or without a title goes on to
\* the next listing: nothing is emitted, nothing is recorded, nothing is raised.
C8_IncompleteSkipped ==
    [][ (InEbayLoop /\ ~EbayComplete(results[idx]) /\ pc' # "stopped") =>
            /\ pc' = "ebay_loop"
            /\ idx' = idx + 1
            /\ err' = "none"
            /\ ebay_matches' = ebay_matches
            /\ new_seen' = new_seen ]_vars

\* C9: wherever the Gumtree loop stands, a load of the file returns every
\* identity the loop has finished with and every identity loaded at the start.
C9_CrashTolerance ==
    pc = "gumtree_loop" =>
        /\ \A k \in 1..(idx - 1) : results[k].link \in GumtreeStored
        /\ seen \subseteq GumtreeStored

\* C10: except in the step that runs clear_cache, what a load of each store
\* returns only grows.
C10_OnlyAdded ==
    [][ ~(pc = "main" /\ cfg.clear /\ pc' = "ebay")
        => (EbayStored \subseteq load_ebay_seen(ebayFile').val /\ GumtreeStored \subseteq load_gumtree_seen(gumtreeFile')) ]_vars

\* C10 witness: a second execution without clear stands in the Gumtree loop
\* with a store that holds what it loaded and more
C10_Witness ==
    /\ runs >= 2
    /\ ~cfg.clear
    /\ pc = "gumtree_loop"
    /\ seen # {}
    /\ seen \subseteq GumtreeStored
    /\ GumtreeStored # seen
    /\ EbayStored # {}

\* C11: the two stores are independent. A step of process_ebay leaves the
\* Gumtree file as it is and a step of process_gumtree leaves the eBay file as
\* it is; each pipeline loads its seen-set from its own store only, so what
\* the other source has recorded stays new for it; the step that runs
\* clear_cache empties both stores together.
C11_StoresIndependent ==
    [][ /\ (pc \in {"ebay", "ebay_loop"}) => gumtreeFile' = gumtreeFile
        /\ (pc \in {"gumtree", "gumtree_loop"}) => ebayFile' = ebayFile
        /\ (pc = "ebay" /\ pc' = "ebay_loop") => seen' = EbayStored
        /\ (pc = "gumtree" /\ pc' = "gumtree_loop") => seen' = GumtreeStored
        /\ (pc = "main" /\ cfg.clear /\ pc' = "ebay") =>
              /\ load_ebay_seen(ebayFile') = [ok |-> TRUE, val |-> {}]
              /\ load_gumtree_seen(gumtreeFile') = {} ]_vars

\* C11 witness: with a filled eBay store, the Gumtree loop has recorded an
\* identity the eBay store does not hold, and its loaded seen-set holds
\* nothing of the eBay store
C11_Witness ==
    /\ pc = "gumtree_loop"
    /\ idx > 1
    /\ EbayStored # {}
    /\ seen # {}
    /\ seen \cap EbayStored = {}
    /\ WrittenGumtree(results[idx - 1].link)
    /\ results[idx - 1].link \notin EbayStored

\* C12: whatever the stores hold, after the step that runs clear_cache the
\* load of each source returns the empty set, and a second clear_cache would
\* change nothing; when neither file exists the clear step succeeds and
\* leaves both as they are; a pipeline that begins with no file of its
\* source loads the empty set and enters its loop without an error.
C12_ClearAndFirstRun ==
    [][ /\ (pc = "main" /\ cfg.clear /\ pc' = "ebay") =>
              /\ load_ebay_seen(ebayFile') = [ok |-> TRUE, val |-> {}]
              /\ load_gumtree_seen(gumtreeFile') = {}
              /\ clear_cache(ebayFile', gumtreeFile') = <<ebayFile', gumtreeFile'>>
              /\ (ebayFile = NoEbayFile /\ gumtreeFile = NoGumtreeFile)
                    => (ebayFile' = ebayFile /\ gumtreeFile' = gumtreeFile)
              /\ err' = "none"
        /\ (pc = "ebay" /\ cfg.ebay /\ ebayFile = NoEbayFile
                /\ pc' # "stopped" /\ err' # "HTTPError") =>
              (pc' = "ebay_loop" /\ seen' = {} /\ err' = "none")
        /\ (pc = "gumtree" /\ cfg.gumtree /\ gumtreeFile = NoGumtreeFile
                /\ pc' # "stopped" /\ err' # "HTTPError") =>
              (pc' = "gumtree_loop" /\ seen' = {} /\ err' = "none") ]_vars

\* C12 witness: clear_cache removed two filled stores, and process_ebay then
\* loaded the empty set from the absent file
C12_Witness ==
    /\ pc = "ebay_loop"
    /\ cfg.clear
    /\ cleared.done
    /\ cleared.ebay # {}
    /\ cleared.gumtree # {}
    /\ ebayFile = NoEbayFile
    /\ gumtreeFile = NoGumtreeFile
    /\ seen = {}

\* the link as written up to its query and fragment: up to its first "?" or "#"
BeforeQuery(link) ==
    LET cut == {n \in 1..Len(link) : link[n] \in {"?", "#"}}
    IN  IF cut = {} THEN link
        ELSE SubSeq(link, 1, (CHOOSE n \in cut : \A m \in cut : n <= m) - 1)

\* C13: a call of normalize_ebay_url returns the same identity for every link
\* that differs from its argument only in the query or the fragment, and
\* normalising the returned identity again returns it unchanged.
C13_NormalizedIdentity ==
    (call.fn = "normalize_ebay_url" /\ call.done) =>
        /\ \A l \in Links :
              BeforeQuery(l) = BeforeQuery(call.text) => normalize_ebay_url(l) = call.ret
        /\ normalize_ebay_url(call.ret) = call.ret

\* the title has a configured keyword in it, whatever the case of the letters
HasKeyword(title) ==
    \E k \in 1..Len(SEARCH_KEYWORDS) :
       \E n \in 1..(Len(title) - Len(SEARCH_KEYWORDS[k]) + 1) :
          \A i \in 1..Len(SEARCH_KEYWORDS[k]) :
             LowerChar(title[n + i - 1]) = LowerChar(SEARCH_KEYWORDS[k][i])

\* RATIO of is_match for the website, as <<num, den>>
ThresholdOf(website) ==
    IF website = "ebay" THEN <<EBAY_RATIO_NUM, EBAY_RATIO_DEN>>
    ELSE <<GUMTREE_RATIO_NUM, GUMTREE_RATIO_DEN>>

\* no known bike is similar to the title beyond the threshold of the website
NoTermAbove(title, website) ==
    \A n \in 1..Len(KNOWN_BIKES) :
       ~RatioExceeds(Ratio(Lower(title), Lower(KNOWN_BIKES[n])),
                     ThresholdOf(website)[1], ThresholdOf(website)[2])

\* C14: for a title that has a keyword in it (case-insensitively) and that no
\* known bike resembles beyond the website's threshold, is_match returns TRUE
\* for "gumtree" and FALSE for every other website.
C14_KeywordPathSourceRestricted ==
    (call.fn = "is_match" /\ call.done /\ HasKeyword(call.text)
        /\ NoTermAbove(call.text, call.website))
    => (call.ret <=> call.website = "gumtree")

\* C14 witness: is_match has accepted for Gumtree a title whose only claim
\* is the keyword, written in mixed case
C14_Witness ==
    /\ call.fn = "is_match"
    /\ call.done
    /\ call.website = "gumtree"
    /\ call.text = TitleLongBIKE
    /\ HasKeyword(call.text)
    /\ NoTermAbove(call.text, "gumtree")
    /\ call.ret = TRUE

\* the location names the target area: "edinburgh" stands in it, whatever
\* the case of the letters
NamesEdinburgh(location) ==
    \E n \in 1..(Len(location) - Len(EDINBURGH) + 1) :
       \A i \in 1..Len(EDINBURGH) : LowerChar(location[n + i - 1]) = EDINBURGH[i]

\* C15: under mode "anywhere" is_nearby returns TRUE for every location,
\* "Unknown" included; under mode "edinburgh" it returns TRUE exactly for the
\* locations that have "edinburgh" in them in any case, so the "Unknown" of a
\* listing without a location is rejected.
C15_LocationGating ==
    (call.fn = "is_nearby" /\ call.done) =>
        /\ call.mode = "anywhere" => call.ret = TRUE
        /\ call.mode = "edinburgh" => (call.ret <=> NamesEdinburgh(call.text))
        /\ (call.mode = "edinburgh" /\ call.text = UNKNOWN) => call.ret = FALSE

\* C15 witness: under mode "edinburgh" is_nearby has accepted a location
\* that has the city in capitals inside a longer text
C15_Witness ==
    /\ call.fn = "is_nearby"
    /\ call.done
    /\ call.mode = "edinburgh"
    /\ call.text = LocLeith
    /\ call.ret = TRUE

\* m is inp with some elements left out, the others in their order
IsSubsequence(m, inp) ==
    \E f \in [1..Len(m) -> 1..Len(inp)] :
       /\ \A i, j \in 1..Len(m) : i < j => f[i] < f[j]
       /\ \A i \in 1..Len(m) : m[i] = inp[f[i]]

\* what the loops would emit for each listing they have gone through
EbayCandidates ==
    [k \in 1..(idx - 1) |->
        IF EbayComplete(results[k])
        THEN EbayMatch(EbayTitle(results[k]), EbayLink(results[k])) ELSE <<>>]
GumtreeCandidates == [k \in 1..(idx - 1) |-> <<results[k].title, results[k].link>>]

\* the lines main has printed for a source, its header left out
PrintedOf(source) ==
    SelectSeq(printed, LAMBDA r : r.source = source /\ r.line # <<"All matches!">>)

\* the printed lines are the titles and links of the matches, in their order
PrintedInOrder(source, matches) ==
    /\ Len(PrintedOf(source)) = 2 * Len(matches)
    /\ \A n \in 1..Len(matches) :
          /\ PrintedOf(source)[2 * n - 1].line = matches[n][1]
          /\ PrintedOf(source)[2 * n].line = matches[n][2] \o <<"\n">>

C17_ThresholdMonotone ==
    (call.fn = "is_match_config" /\ call.done
        /\ ~(call.website = "gumtree" /\ HasKeyword(call.text))
        /\ call.ret = FALSE)
    => \A n \in call.num..call.den :
          ~is_match_config(call.text, call.website, <<KNOWN_BIKES[call.known]>>,
                           n, call.den)

\* C17 witness: is_match has returned FALSE under a threshold, and would
\* return TRUE under a lower one
C17_Witness ==
    /\ call.fn = "is_match_config"
    /\ call.done
    /\ call.ret = FALSE
    /\ ~(call.website = "gumtree" /\ HasKeyword(call.text))
    /\ call.num < call.den
    /\ \E n \in 0..(call.num - 1) :
          is_match_config(call.text, call.website, <<KNOWN_BIKES[call.known]>>,
                          n, call.den)

\* C18: both stores give back what was put into them: the load of the eBay
\* file that save_ebay_seen has just written returns exactly the saved set,
\* and the load of the Gumtree file after mark_gumtree_seen has appended an
\* identity returns a set that holds that identity as it was given, leading
\* or trailing blanks included.
C18_StoreRoundTrip ==
    [][ /\ (pc = "ebay_loop" /\ pc' = "gumtree") =>
              load_ebay_seen(ebayFile') = [ok |-> TRUE, val |-> new_seen]
        /\ (InGumtreeLoop /\ idx' = idx + 1 /\ gumtreeFile' # gumtreeFile) =>
              results[idx].link \in load_gumtree_seen(gumtreeFile') ]_vars

\* main has printed the match: its title and, on the next line, its link
Reported(source, match) ==
    \E i \in 1..(Len(printed) - 1) :
       /\ printed[i] = [source |-> source, line |-> match[1]]
       /\ printed[i + 1] = [source |-> source, line |-> match[2] \o <<"\n">>]

\* C19: when an execution of main is over, however it ended (returned, left
\* by an exception, stopped part-way), every match of it whose identity a
\* load of its source's store returns has been printed.
C19_NoMatchLost ==
    pc \in {"done", "raised", "stopped"} =>
        /\ \A n \in 1..Len(ebay_matches) :
              ebay_matches[n][2] \in EbayStored => Reported("ebay", ebay_matches[n])
        /\ \A n \in 1..Len(gumtree_matches) :
              gumtree_matches[n][2] \in GumtreeStored
                 => Reported("gumtree", gumtree_matches[n])

====
